---- MODULE Spec2Model ----
(***************************************************************************)
(* Economy and progression engine of the restaurant idle game, with the    *)
(* datastore and the request handlers that call it.                        *)
(*                                                                         *)
(* Numbers.  Python floats are modelled by exact integers and rationals:   *)
(*   - time is in whole seconds;                                           *)
(*   - a rate (income_per_hour, income_bonus) is in half dollars per hour; *)
(*   - money (balance, total_earned, income) is in units of                *)
(*     1 / (2 * 3600) dollar, so that rate * seconds is an amount of money *)
(*     with no division: income = income_per_hour * (seconds / 3600);      *)
(*   - a base cost and a cost multiplier are rationals <<num, den>>, and   *)
(*     an upgrade cost is in whole dollars, as math.ceil returns it.       *)
(* Binary floating-point rounding is not modelled.                         *)
(***************************************************************************)
EXTENDS Integers, Sequences, FiniteSets, TLC

VARIABLES
    now,                \* the wall clock, seconds (datetime.now, CURRENT_TIMESTAMP)
    call,               \* the engine call made last: [op, args]
    ret,                \* what that call returned
    users,              \* table users: the set of user_id
    user_progress,      \* table user_progress: user_id -> row
    user_upgrades,      \* table user_upgrades: <<user_id, upgrade_id>> -> level
    user_achievements,  \* table user_achievements: sequence of rows <<user_id, achievement_id>>
    minigame_attempts,  \* table minigame_attempts: sequence of rows
    unlock_ret,         \* the last unlock_achievement call: <<user_id, achievement_id, returned>>
    req,                \* the handler coroutines in flight: slot -> frame
    started,            \* number of requests accepted so far
    accrued             \* history: user_id -> the income accrued since last_income_collected
                        \* at the income_per_hour stored while the time passed

dbVars == <<users, user_progress, user_upgrades, user_achievements, minigame_attempts>>
vars == <<now, call, ret, users, user_progress, user_upgrades, user_achievements,
          minigame_attempts, unlock_ret, req, started, accrued>>

----------------------------------------------------------------------------
(* Program constants *)

SecondsPerHour == 3600
OFFLINE_INCOME_MAX_HOURS == 24
INITIAL_INCOME_PER_HOUR == 10
INITIAL_GUESTS_PER_HOUR == 2

(* Units *)
DOLLAR == 2 * SecondsPerHour          \* one dollar, in money units
CENT == DOLLAR \div 100               \* 0.01 dollar, in money units
HalfDollars(dollars) == 2 * dollars   \* a rate in dollars per hour, in half dollars per hour

(* Bounds of the model *)
MaxLevel == 3          \* engine calls: levels 0..MaxLevel
MaxRequests == 3       \* requests accepted in one behaviour
NumSlots == 2          \* handler coroutines in flight at once
NumUsers == 1          \* user ids 1..NumUsers
MaxUnlocks == 4        \* rows of user_achievements
MaxOwned == 2          \* engine calls: upgrade rows in the list passed
NumPlayers == 3        \* leaderboard: player ids 1..NumPlayers
MaxEarned == 300       \* leaderboard: total_earned credited up to this, dollars

UserIds == 1..NumUsers
Slots == 1..NumSlots
\* the instants at which the clock is observed
Instants == {0, 3, 18000, 100000}

Min(a, b) == IF a <= b THEN a ELSE b
Max(a, b) == IF a >= b THEN a ELSE b

RECURSIVE Pow(_, _)
Pow(b, e) == IF e = 0 THEN 1 ELSE b * Pow(b, e - 1)

\* math.ceil of the rational n / d, d > 0
Ceil(n, d) == IF n >= 0 THEN (n + d - 1) \div d ELSE -((-n) \div d)

----------------------------------------------------------------------------
(* GameEngine: the pure calculations *)

\* calculate_offline_income(income_per_hour, last_collected, max_hours), with
\* the clock it reads as `clock`.  Returns <<income, hours>>, hours in seconds.
calculate_offline_income_nocap(income_per_hour, last_collected, max_hours, clock) ==
    LET hours == clock - last_collected
    IN  <<income_per_hour * hours, hours>>

calculate_offline_income(income_per_hour, last_collected, max_hours, clock) ==
    LET time_passed == clock - last_collected
        hours == Min(time_passed, max_hours * SecondsPerHour)
        income == income_per_hour * hours
    IN  <<income, hours>>

\* the call with max_hours=None, as every handler makes it
calculate_offline_income_default(income_per_hour, last_collected, clock) ==
    calculate_offline_income(income_per_hour, last_collected,
                             OFFLINE_INCOME_MAX_HOURS, clock)

\* calculate_upgrade_cost(base_cost, current_level, multiplier): whole dollars
calculate_upgrade_cost_floor(base_cost, current_level, multiplier) ==
    (base_cost[1] * Pow(multiplier[1], current_level))
        \div (base_cost[2] * Pow(multiplier[2], current_level))

calculate_upgrade_cost_flat(base_cost, current_level, multiplier) ==
    Ceil(base_cost[1] * multiplier[1], base_cost[2] * multiplier[2])

calculate_upgrade_cost(base_cost, current_level, multiplier) ==
    Ceil(base_cost[1] * Pow(multiplier[1], current_level),
         base_cost[2] * Pow(multiplier[2], current_level))

\* one step of the loop of calculate_total_income over rows i..Len(upgrades)
RECURSIVE total_bonus(_, _, _)
total_bonus(upgrades, i, field) ==
    IF i > Len(upgrades) THEN 0
    ELSE (IF field = "income" THEN upgrades[i].income_bonus
                              ELSE upgrades[i].guests_bonus) * upgrades[i].level
         + total_bonus(upgrades, i + 1, field)

\* calculate_total_income(base_income, upgrades): <<income_per_hour, guests_per_hour>>;
\* base_income and income_bonus in half dollars per hour
calculate_total_income(base_income, upgrades) ==
    LET total_income_bonus == total_bonus(upgrades, 1, "income")
        total_guests_bonus == total_bonus(upgrades, 1, "guests")
    IN  <<base_income + total_income_bonus,
          INITIAL_GUESTS_PER_HOUR + total_guests_bonus>>

\* round(x, 2) of x given in 1/10000 dollar: cents, halves to the even cent
round2(x) ==
    LET q == x \div 100
        r == x % 100
    IN  IF r > 50 THEN q + 1
        ELSE IF r < 50 THEN q
        ELSE IF q % 2 = 0 THEN q ELSE q + 1

\* the per-point multipliers of calculate_minigame_reward, in 1/10000 dollar
minigame_multiplier(game_type) ==
    CASE game_type = "burger_flip" -> 5000
      [] game_type = "speed_tap" -> 3000
      [] game_type = "memory" -> 10000
      [] OTHER -> 5000

\* calculate_minigame_reward(score, game_type): the reward in cents
calculate_minigame_reward_bonus_from_50(score, game_type) ==
    LET reward == score * minigame_multiplier(game_type)
    IN  round2(IF score >= 50 THEN (reward * 15) \div 10 ELSE reward)

calculate_minigame_reward_high_first(score, game_type) ==
    LET reward == score * minigame_multiplier(game_type)
        bonus == IF score > 100 THEN reward * 2
                 ELSE IF score > 50 THEN (reward * 15) \div 10
                 ELSE reward
    IN  round2(bonus)

calculate_minigame_reward(score, game_type) ==
    LET reward == score * minigame_multiplier(game_type)
        bonus == IF score > 50 THEN (reward * 15) \div 10
                 ELSE IF score > 100 THEN reward * 2
                 ELSE reward
    IN  round2(bonus)

\* progress_data.get(key, 0): progress_data is a function on the keys it holds
DictGet(d, key, default) == IF key \in DOMAIN d THEN d[key] ELSE default

\* check_achievement_progress(progress_data, achievement): True or False
check_achievement_progress_strict(progress_data, achievement) ==
    LET condition_type == achievement.condition_type
        condition_value == achievement.condition_value
    IN  IF condition_type = "total_earned"
        THEN DictGet(progress_data, "total_earned", 0) > condition_value
        ELSE IF condition_type = "upgrades_count"
        THEN DictGet(progress_data, "upgrades_count", 0) > condition_value
        ELSE FALSE

check_achievement_progress(progress_data, achievement) ==
    LET condition_type == achievement.condition_type
        condition_value == achievement.condition_value
    IN  IF condition_type = "total_earned"
        THEN DictGet(progress_data, "total_earned", 0) >= condition_value
        ELSE IF condition_type = "upgrades_count"
        THEN DictGet(progress_data, "upgrades_count", 0) >= condition_value
        ELSE IF condition_type = "guests_served"
        THEN FALSE
        ELSE FALSE

\* int(n / d), d > 0: the fraction is cut off, towards zero
IntOf(n, d) == IF n >= 0 THEN n \div d ELSE -((-n) \div d)

\* format_time(hours), hours given in seconds.  The string is modelled by its
\* parts: <<minutes, "m">>, <<full_hours, "h">> or <<full_hours, "h", minutes, "m">>
format_time_minutes_always(hours) ==
    IF hours < SecondsPerHour
    THEN <<IntOf(hours * 60, SecondsPerHour), "m">>
    ELSE LET full_hours == IntOf(hours, SecondsPerHour)
             minutes == IntOf((hours - full_hours * SecondsPerHour) * 60, SecondsPerHour)
         IN  <<full_hours, "h", minutes, "m">>

format_time(hours) ==
    IF hours < SecondsPerHour
    THEN LET minutes == IntOf(hours * 60, SecondsPerHour)
         IN  <<minutes, "m">>
    ELSE LET full_hours == IntOf(hours, SecondsPerHour)
             minutes == IntOf((hours - full_hours * SecondsPerHour) * 60, SecondsPerHour)
         IN  IF minutes = 0
             THEN <<full_hours, "h">>
             ELSE <<full_hours, "h", minutes, "m">>

----------------------------------------------------------------------------
(* The datastore: schema.py and the Database methods of db.py *)

\* INITIAL_UPGRADES: the catalogue rows modelled (ids 1 and 6 of 15), with the
\* DEFAULT cost_multiplier 1.15
upgrades ==
    (1 :> [base_cost |-> <<50, 1>>, cost_multiplier |-> <<23, 20>>,
           income_bonus |-> 2, guests_bonus |-> 0]) @@
    (6 :> [base_cost |-> <<75, 1>>, cost_multiplier |-> <<23, 20>>,
           income_bonus |-> 1, guests_bonus |-> 2])

\* the order in which a SELECT returns the catalogue ids
upgrade_order == <<1, 6>>

\* create_user's INSERT INTO user_progress, with the column defaults
new_progress_row(clock) ==
    [balance |-> 0,
     income_per_hour |-> HalfDollars(10),
     guests_per_hour |-> 2,
     total_earned |-> 0,
     last_income_collected |-> clock]

\* get_user_progress: the row, or nothing (None) as the empty set
get_user_progress(user_id) ==
    IF user_id \in DOMAIN user_progress THEN {user_progress[user_id]} ELSE {}

\* update_balance: the table user_progress after the UPDATE
update_balance_total_always(user_id, amount, update_total) ==
    IF user_id \notin DOMAIN user_progress THEN user_progress
    ELSE [user_progress EXCEPT ![user_id].balance = @ + amount,
                               ![user_id].total_earned = @ + amount]

update_balance(user_id, amount, update_total) ==
    IF user_id \notin DOMAIN user_progress THEN user_progress
    ELSE IF update_total
         THEN [user_progress EXCEPT ![user_id].balance = @ + amount,
                                    ![user_id].total_earned = @ + amount]
         ELSE [user_progress EXCEPT ![user_id].balance = @ + amount]

\* update_income_stats: the table user_progress after the UPDATE
update_income_stats(user_id, income_per_hour, guests_per_hour) ==
    IF user_id \notin DOMAIN user_progress THEN user_progress
    ELSE [user_progress EXCEPT ![user_id].income_per_hour = income_per_hour,
                               ![user_id].guests_per_hour = guests_per_hour]

\* update_last_income_collected: CURRENT_TIMESTAMP is the clock
update_last_income_collected(user_id, clock) ==
    IF user_id \notin DOMAIN user_progress THEN user_progress
    ELSE [user_progress EXCEPT ![user_id].last_income_collected = clock]

\* get_user_upgrade_level: the level of the row, 0 when there is no row
get_user_upgrade_level(user_id, upgrade_id) ==
    IF <<user_id, upgrade_id>> \in DOMAIN user_upgrades
    THEN user_upgrades[<<user_id, upgrade_id>>]
    ELSE 0

\* get_user_upgrades: the user's rows joined with the catalogue
get_user_upgrades(user_id) ==
    LET owned == SelectSeq(upgrade_order,
                           LAMBDA g : <<user_id, g>> \in DOMAIN user_upgrades)
    IN  [i \in 1..Len(owned) |->
            [upgrade_id |-> owned[i],
             level |-> user_upgrades[<<user_id, owned[i]>>],
             income_bonus |-> upgrades[owned[i]].income_bonus,
             guests_bonus |-> upgrades[owned[i]].guests_bonus]]

\* the INSERT or UPDATE of Database.purchase_upgrade, given the level it read:
\* <<table user_upgrades after it, the value purchase_upgrade returns>>.
\* An INSERT that breaks UNIQUE(user_id, upgrade_id) or a foreign key raises,
\* and the except clause returns False.
purchase_upgrade_write_set(user_id, upgrade_id, current_level) ==
    IF <<user_id, upgrade_id>> \in DOMAIN user_upgrades
    THEN <<[user_upgrades EXCEPT ![<<user_id, upgrade_id>>] = current_level + 1], TRUE>>
    ELSE IF user_id \in users /\ upgrade_id \in DOMAIN upgrades
         THEN <<user_upgrades @@ (<<user_id, upgrade_id>> :> 1), TRUE>>
         ELSE <<user_upgrades, FALSE>>

purchase_upgrade_write(user_id, upgrade_id, current_level) ==
    IF current_level = 0
    THEN IF <<user_id, upgrade_id>> \notin DOMAIN user_upgrades
            /\ user_id \in users /\ upgrade_id \in DOMAIN upgrades
         THEN <<user_upgrades @@ (<<user_id, upgrade_id>> :> 1), TRUE>>
         ELSE <<user_upgrades, FALSE>>
    ELSE IF <<user_id, upgrade_id>> \in DOMAIN user_upgrades
         THEN <<[user_upgrades EXCEPT ![<<user_id, upgrade_id>>] = @ + 1], TRUE>>
         ELSE <<user_upgrades, TRUE>>

----------------------------------------------------------------------------
(* The handlers.  A frame holds one handler coroutine: where it is (pc) and  *)
(* its local variables.  Each action is one await of the handler: the        *)
(* datastore call awaited, and the handler's code up to the next await.      *)

Idle ==
    [pc |-> "idle", user_id |-> 0, upgrade_id |-> 0, game_type |-> "",
     score |-> 0, progress |-> {}, current_level |-> 0, cost |-> 0,
     income |-> 0, hours |-> 0, reward |-> 0, new_income |-> 0,
     new_guests |-> 0, purchased |-> FALSE, response |-> ""]

\* the request inputs enumerated
UpgradeIdInputs == {0, 1, 6, 99}       \* 0: no upgrade_id in the body; 99: not in the catalogue
GameTypeInputs == {"", "memory"}       \* "": no game_type in the body
ScoreInputs == {-5, 60}

\* a new request is taken by the first free coroutine slot
Free(r) ==
    /\ req[r].pc = "idle"
    /\ \A q \in Slots : q < r => req[q].pc # "idle"
    /\ started < MaxRequests

Progress(r) == CHOOSE p \in req[r].progress : TRUE

\* return web.json_response(...) / message.answer(...): the handler ends
Respond(r, text) == [req[r] EXCEPT !.pc = "reply", !.response = text]

Reply(r) ==
    /\ req[r].pc = "reply"
    /\ req' = [req EXCEPT ![r] = Idle]
    /\ UNCHANGED <<accrued, now, call, ret, users, user_progress, user_upgrades,
                   user_achievements, minigame_attempts, unlock_ret, started>>

Accrued(u) == IF u \in DOMAIN accrued THEN accrued[u] ELSE 0

\* the clock moves on
Tick ==
    /\ \E t \in Instants :
          /\ t > now
          /\ now' = t
          /\ accrued' = [u \in DOMAIN user_progress |->
                            Accrued(u) + user_progress[u].income_per_hour * (t - now)]
    /\ UNCHANGED <<call, ret, users, user_progress, user_upgrades,
                   user_achievements, minigame_attempts, unlock_ret, req, started>>

(* cmd_start *)

RequestStart(r, u) ==
    /\ Free(r)
    /\ req' = [req EXCEPT ![r] = [Idle EXCEPT !.pc = "start_get_user", !.user_id = u]]
    /\ started' = started + 1
    /\ UNCHANGED <<accrued, now, call, ret, users, user_progress, user_upgrades,
                   user_achievements, minigame_attempts, unlock_ret>>

\* existing_user = await db.get_user(user.id)
StartGetUser(r) ==
    /\ req[r].pc = "start_get_user"
    /\ req' = [req EXCEPT ![r].pc =
                  IF req[r].user_id \in users THEN "start_update_active"
                                              ELSE "start_insert_user"]
    /\ UNCHANGED <<accrued, now, call, ret, users, user_progress, user_upgrades,
                   user_achievements, minigame_attempts, unlock_ret, started>>

\* await db.update_last_active(user.id); last_active is not modelled
StartUpdateActive(r) ==
    /\ req[r].pc = "start_update_active"
    /\ req' = [req EXCEPT ![r] = Respond(r, "welcome back")]
    /\ UNCHANGED <<accrued, now, call, ret, users, user_progress, user_upgrades,
                   user_achievements, minigame_attempts, unlock_ret, started>>

\* create_user: INSERT INTO users; IntegrityError (the row exists) returns False
StartInsertUser(r) ==
    /\ req[r].pc = "start_insert_user"
    /\ IF req[r].user_id \in users
       THEN /\ req' = [req EXCEPT ![r] = Respond(r, "welcome")]
            /\ users' = users
       ELSE /\ req' = [req EXCEPT ![r].pc = "start_insert_progress"]
            /\ users' = users \cup {req[r].user_id}
    /\ UNCHANGED <<accrued, now, call, ret, user_progress, user_upgrades,
                   user_achievements, minigame_attempts, unlock_ret, started>>

\* create_user: INSERT INTO user_progress
StartInsertProgress(r) ==
    /\ req[r].pc = "start_insert_progress"
    /\ user_progress' =
          IF req[r].user_id \in DOMAIN user_progress THEN user_progress
          ELSE user_progress @@ (req[r].user_id :> new_progress_row(now))
    /\ req' = [req EXCEPT ![r] = Respond(r, "welcome")]
    /\ UNCHANGED <<accrued, now, call, ret, users, user_upgrades,
                   user_achievements, minigame_attempts, unlock_ret, started>>

(* collect_income: api.py, and the same calls in the same order in handlers.py *)

RequestCollectIncome(r, u) ==
    /\ Free(r)
    /\ req' = [req EXCEPT ![r] = [Idle EXCEPT !.pc = "collect_get_progress", !.user_id = u]]
    /\ started' = started + 1
    /\ UNCHANGED <<accrued, now, call, ret, users, user_progress, user_upgrades,
                   user_achievements, minigame_attempts, unlock_ret>>

\* progress = await db.get_user_progress(user_id); if not progress: 404
CollectGetProgress(r) ==
    /\ req[r].pc = "collect_get_progress"
    /\ LET progress == get_user_progress(req[r].user_id)
       IN  req' = [req EXCEPT ![r] =
                      IF progress = {} THEN Respond(r, "User not found")
                      ELSE [@ EXCEPT !.pc = "collect_calculate", !.progress = progress]]
    /\ UNCHANGED <<accrued, now, call, ret, users, user_progress, user_upgrades,
                   user_achievements, minigame_attempts, unlock_ret, started>>

\* the income threshold of collect_income: income < 0.01
below_threshold_never(income) == FALSE

below_threshold(income) == income < CENT

\* income, hours = game_engine.calculate_offline_income(...); if income < 0.01: return
CollectCalculate(r) ==
    /\ req[r].pc = "collect_calculate"
    /\ LET got == calculate_offline_income_default(
                      Progress(r).income_per_hour,
                      Progress(r).last_income_collected, now)
       IN  req' = [req EXCEPT ![r] =
                      IF below_threshold(got[1])
                      THEN [Respond(r, "No income to collect yet")
                                EXCEPT !.income = got[1], !.hours = got[2]]
                      ELSE [@ EXCEPT !.pc = "collect_update_balance",
                                     !.income = got[1], !.hours = got[2]]]
    /\ UNCHANGED <<accrued, now, call, ret, users, user_progress, user_upgrades,
                   user_achievements, minigame_attempts, unlock_ret, started>>

\* await db.update_balance(user_id, income, update_total=True)
CollectUpdateBalance(r) ==
    /\ req[r].pc = "collect_update_balance"
    /\ user_progress' = update_balance(req[r].user_id, req[r].income, TRUE)
    /\ req' = [req EXCEPT ![r].pc = "collect_update_last"]
    /\ UNCHANGED <<accrued, now, call, ret, users, user_upgrades,
                   user_achievements, minigame_attempts, unlock_ret, started>>

\* await db.update_last_income_collected(user_id)
CollectUpdateLast(r) ==
    /\ req[r].pc = "collect_update_last"
    /\ user_progress' = update_last_income_collected(req[r].user_id, now)
    /\ accrued' = [u \in DOMAIN accrued |-> IF u = req[r].user_id THEN 0 ELSE accrued[u]]
    /\ req' = [req EXCEPT ![r].pc = "collect_new_progress"]
    /\ UNCHANGED <<now, call, ret, users, user_upgrades,
                   user_achievements, minigame_attempts, unlock_ret, started>>

\* new_progress = await db.get_user_progress(user_id); return the response
CollectNewProgress(r) ==
    /\ req[r].pc = "collect_new_progress"
    /\ req' = [req EXCEPT ![r] = Respond(r, "collected")]
    /\ UNCHANGED <<accrued, now, call, ret, users, user_progress, user_upgrades,
                   user_achievements, minigame_attempts, unlock_ret, started>>

(* purchase_upgrade: api.py *)

\* upgrade_id = data.get('upgrade_id'); if not upgrade_id: 400
RequestPurchaseUpgrade(r, u, g) ==
    /\ Free(r)
    /\ req' = [req EXCEPT ![r] =
                  IF g = 0
                  THEN [Idle EXCEPT !.pc = "reply", !.user_id = u,
                                    !.response = "upgrade_id is required"]
                  ELSE [Idle EXCEPT !.pc = "purchase_get_progress", !.user_id = u,
                                    !.upgrade_id = g]]
    /\ started' = started + 1
    /\ UNCHANGED <<accrued, now, call, ret, users, user_progress, user_upgrades,
                   user_achievements, minigame_attempts, unlock_ret>>

\* progress = await db.get_user_progress(user_id)
PurchaseGetProgress(r) ==
    /\ req[r].pc = "purchase_get_progress"
    /\ req' = [req EXCEPT ![r].pc = "purchase_get_upgrade",
                          ![r].progress = get_user_progress(req[r].user_id)]
    /\ UNCHANGED <<accrued, now, call, ret, users, user_progress, user_upgrades,
                   user_achievements, minigame_attempts, unlock_ret, started>>

\* upgrade = await db.fetchone("SELECT * FROM upgrades WHERE id = ?"); if not upgrade: 404
PurchaseGetUpgrade(r) ==
    /\ req[r].pc = "purchase_get_upgrade"
    /\ req' = [req EXCEPT ![r] =
                  IF req[r].upgrade_id \notin DOMAIN upgrades
                  THEN Respond(r, "Upgrade not found")
                  ELSE [@ EXCEPT !.pc = "purchase_get_level"]]
    /\ UNCHANGED <<accrued, now, call, ret, users, user_progress, user_upgrades,
                   user_achievements, minigame_attempts, unlock_ret, started>>

\* the balance check of purchase_upgrade: progress['balance'] < cost, cost in dollars
insufficient_balance_never(balance, cost) == FALSE

insufficient_balance(balance, cost) == balance < cost * DOLLAR

\* current_level = await db.get_user_upgrade_level(...); cost = ...;
\* if progress['balance'] < cost: 400.  progress None raises TypeError: a 500.
PurchaseGetLevel(r) ==
    /\ req[r].pc = "purchase_get_level"
    /\ LET current_level == get_user_upgrade_level(req[r].user_id, req[r].upgrade_id)
           upgrade == upgrades[req[r].upgrade_id]
           cost == calculate_upgrade_cost(upgrade.base_cost, current_level,
                                          upgrade.cost_multiplier)
       IN  req' = [req EXCEPT ![r] =
                      IF req[r].progress = {}
                      THEN [Respond(r, "Internal Server Error")
                                EXCEPT !.current_level = current_level, !.cost = cost]
                      ELSE IF insufficient_balance(Progress(r).balance, cost)
                      THEN [Respond(r, "Insufficient balance")
                                EXCEPT !.current_level = current_level, !.cost = cost]
                      ELSE [@ EXCEPT !.pc = "purchase_db_get_level",
                                     !.current_level = current_level, !.cost = cost]]
    /\ UNCHANGED <<accrued, now, call, ret, users, user_progress, user_upgrades,
                   user_achievements, minigame_attempts, unlock_ret, started>>

\* Database.purchase_upgrade: current_level = await self.get_user_upgrade_level(...)
PurchaseDbGetLevel(r) ==
    /\ req[r].pc = "purchase_db_get_level"
    /\ req' = [req EXCEPT ![r].pc = "purchase_db_write",
                          ![r].current_level =
                              get_user_upgrade_level(req[r].user_id, req[r].upgrade_id)]
    /\ UNCHANGED <<accrued, now, call, ret, users, user_progress, user_upgrades,
                   user_achievements, minigame_attempts, unlock_ret, started>>

\* Database.purchase_upgrade: the INSERT or the UPDATE; the handler drops the result
PurchaseDbWrite(r) ==
    /\ req[r].pc = "purchase_db_write"
    /\ LET got == purchase_upgrade_write(req[r].user_id, req[r].upgrade_id,
                                         req[r].current_level)
       IN  /\ user_upgrades' = got[1]
           /\ req' = [req EXCEPT ![r].pc = "purchase_update_balance",
                                 ![r].purchased = got[2]]
    /\ UNCHANGED <<accrued, now, call, ret, users, user_progress,
                   user_achievements, minigame_attempts, unlock_ret, started>>

\* await db.update_balance(user_id, -cost, update_total=False)
PurchaseUpdateBalance(r) ==
    /\ req[r].pc = "purchase_update_balance"
    /\ user_progress' = update_balance(req[r].user_id, -(req[r].cost * DOLLAR), FALSE)
    /\ req' = [req EXCEPT ![r].pc = "purchase_get_upgrades"]
    /\ UNCHANGED <<accrued, now, call, ret, users, user_upgrades,
                   user_achievements, minigame_attempts, unlock_ret, started>>

\* user_upgrades = await db.get_user_upgrades(user_id); calculate_total_income(...)
PurchaseGetUpgrades(r) ==
    /\ req[r].pc = "purchase_get_upgrades"
    /\ LET got == calculate_total_income(HalfDollars(INITIAL_INCOME_PER_HOUR),
                                         get_user_upgrades(req[r].user_id))
       IN  req' = [req EXCEPT ![r].pc = "purchase_update_stats",
                              ![r].new_income = got[1],
                              ![r].new_guests = got[2]]
    /\ UNCHANGED <<accrued, now, call, ret, users, user_progress, user_upgrades,
                   user_achievements, minigame_attempts, unlock_ret, started>>

\* await db.update_income_stats(user_id, new_income, new_guests)
PurchaseUpdateStats(r) ==
    /\ req[r].pc = "purchase_update_stats"
    /\ user_progress' = update_income_stats(req[r].user_id, req[r].new_income,
                                            req[r].new_guests)
    /\ req' = [req EXCEPT ![r].pc = "purchase_new_progress"]
    /\ UNCHANGED <<accrued, now, call, ret, users, user_upgrades,
                   user_achievements, minigame_attempts, unlock_ret, started>>

\* new_progress = await db.get_user_progress(user_id); return the response
PurchaseNewProgress(r) ==
    /\ req[r].pc = "purchase_new_progress"
    /\ req' = [req EXCEPT ![r] = Respond(r, "success")]
    /\ UNCHANGED <<accrued, now, call, ret, users, user_progress, user_upgrades,
                   user_achievements, minigame_attempts, unlock_ret, started>>

(* save_minigame_result: api.py *)

\* game_type = data.get('game_type'); score = data.get('score', 0);
\* if not game_type: 400; reward = game_engine.calculate_minigame_reward(score, game_type)
RequestMinigameResult(r, u, game_type, score) ==
    /\ Free(r)
    /\ req' = [req EXCEPT ![r] =
                  IF game_type = ""
                  THEN [Idle EXCEPT !.pc = "reply", !.user_id = u, !.score = score,
                                    !.response = "game_type is required"]
                  ELSE [Idle EXCEPT !.pc = "minigame_save_attempt", !.user_id = u,
                                    !.game_type = game_type, !.score = score,
                                    !.reward = calculate_minigame_reward(score, game_type)]]
    /\ started' = started + 1
    /\ UNCHANGED <<accrued, now, call, ret, users, user_progress, user_upgrades,
                   user_achievements, minigame_attempts, unlock_ret>>

\* await db.save_minigame_attempt(...): the INSERT raises IntegrityError when the
\* user_id is not in users (foreign key), which nothing catches: a 500
MinigameSaveAttempt(r) ==
    /\ req[r].pc = "minigame_save_attempt"
    /\ IF req[r].user_id \in users
       THEN /\ minigame_attempts' = Append(minigame_attempts,
                    [user_id |-> req[r].user_id, game_type |-> req[r].game_type,
                     score |-> req[r].score, reward |-> req[r].reward])
            /\ req' = [req EXCEPT ![r].pc = "minigame_update_balance"]
       ELSE /\ minigame_attempts' = minigame_attempts
            /\ req' = [req EXCEPT ![r] = Respond(r, "Internal Server Error")]
    /\ UNCHANGED <<accrued, now, call, ret, users, user_progress, user_upgrades,
                   user_achievements, unlock_ret, started>>

\* await db.update_balance(user_id, reward, update_total=True); reward is in cents
MinigameUpdateBalance(r) ==
    /\ req[r].pc = "minigame_update_balance"
    /\ user_progress' = update_balance(req[r].user_id, req[r].reward * CENT, TRUE)
    /\ req' = [req EXCEPT ![r].pc = "minigame_new_progress"]
    /\ UNCHANGED <<accrued, now, call, ret, users, user_upgrades,
                   user_achievements, minigame_attempts, unlock_ret, started>>

\* progress = await db.get_user_progress(user_id); progress['balance'] of None raises
MinigameNewProgress(r) ==
    /\ req[r].pc = "minigame_new_progress"
    /\ req' = [req EXCEPT ![r] =
                  IF get_user_progress(req[r].user_id) = {}
                  THEN Respond(r, "Internal Server Error")
                  ELSE Respond(r, "saved")]
    /\ UNCHANGED <<accrued, now, call, ret, users, user_progress, user_upgrades,
                   user_achievements, minigame_attempts, unlock_ret, started>>

----------------------------------------------------------------------------
(* The specification of the handlers over the datastore *)

\* The database file outlives the process: the users registered at time 0
\* by earlier /start commands have their rows as create_user left them.
Init ==
    /\ now = 0
    /\ call = [op |-> "none", args |-> <<>>]
    /\ ret = <<>>
    /\ users \in SUBSET UserIds
    /\ user_progress = [u \in users |-> new_progress_row(0)]
    /\ user_upgrades = <<>>
    /\ user_achievements = <<>>
    /\ minigame_attempts = <<>>
    /\ unlock_ret = <<>>
    /\ req = [r \in Slots |-> Idle]
    /\ started = 0
    /\ accrued = [u \in DOMAIN user_progress |-> 0]

Next ==
    \/ Tick
    \/ \E r \in Slots : Reply(r)
    \/ \E r \in Slots, u \in UserIds : RequestStart(r, u)
    \/ \E r \in Slots : StartGetUser(r)
    \/ \E r \in Slots : StartUpdateActive(r)
    \/ \E r \in Slots : StartInsertUser(r)
    \/ \E r \in Slots : StartInsertProgress(r)
    \/ \E r \in Slots, u \in UserIds : RequestCollectIncome(r, u)
    \/ \E r \in Slots : CollectGetProgress(r)
    \/ \E r \in Slots : CollectCalculate(r)
    \/ \E r \in Slots : CollectUpdateBalance(r)
    \/ \E r \in Slots : CollectUpdateLast(r)
    \/ \E r \in Slots : CollectNewProgress(r)
    \/ \E r \in Slots, u \in UserIds, g \in UpgradeIdInputs : RequestPurchaseUpgrade(r, u, g)
    \/ \E r \in Slots : PurchaseGetProgress(r)
    \/ \E r \in Slots : PurchaseGetUpgrade(r)
    \/ \E r \in Slots : PurchaseGetLevel(r)
    \/ \E r \in Slots : PurchaseDbGetLevel(r)
    \/ \E r \in Slots : PurchaseDbWrite(r)
    \/ \E r \in Slots : PurchaseUpdateBalance(r)
    \/ \E r \in Slots : PurchaseGetUpgrades(r)
    \/ \E r \in Slots : PurchaseUpdateStats(r)
    \/ \E r \in Slots : PurchaseNewProgress(r)
    \/ \E r \in Slots, u \in UserIds, t \in GameTypeInputs, s \in ScoreInputs :
          RequestMinigameResult(r, u, t, s)
    \/ \E r \in Slots : MinigameSaveAttempt(r)
    \/ \E r \in Slots : MinigameUpdateBalance(r)
    \/ \E r \in Slots : MinigameNewProgress(r)

Spec == Init /\ [][Next]_vars

\* the handlers run one request at a time: a request is accepted only when
\* the one before it has been answered
InFlight == {r \in Slots : req[r].pc # "idle"}

NextSequential ==
    \/ Tick
    \/ \E r \in Slots : Reply(r)
    \/ \E r \in Slots, u \in UserIds : InFlight = {} /\ RequestStart(r, u)
    \/ \E r \in Slots : StartGetUser(r)
    \/ \E r \in Slots : StartUpdateActive(r)
    \/ \E r \in Slots : StartInsertUser(r)
    \/ \E r \in Slots : StartInsertProgress(r)
    \/ \E r \in Slots, u \in UserIds : InFlight = {} /\ RequestCollectIncome(r, u)
    \/ \E r \in Slots : CollectGetProgress(r)
    \/ \E r \in Slots : CollectCalculate(r)
    \/ \E r \in Slots : CollectUpdateBalance(r)
    \/ \E r \in Slots : CollectUpdateLast(r)
    \/ \E r \in Slots : CollectNewProgress(r)
    \/ \E r \in Slots, u \in UserIds, g \in UpgradeIdInputs :
          InFlight = {} /\ RequestPurchaseUpgrade(r, u, g)
    \/ \E r \in Slots : PurchaseGetProgress(r)
    \/ \E r \in Slots : PurchaseGetUpgrade(r)
    \/ \E r \in Slots : PurchaseGetLevel(r)
    \/ \E r \in Slots : PurchaseDbGetLevel(r)
    \/ \E r \in Slots : PurchaseDbWrite(r)
    \/ \E r \in Slots : PurchaseUpdateBalance(r)
    \/ \E r \in Slots : PurchaseGetUpgrades(r)
    \/ \E r \in Slots : PurchaseUpdateStats(r)
    \/ \E r \in Slots : PurchaseNewProgress(r)
    \/ \E r \in Slots, u \in UserIds, t \in GameTypeInputs, s \in ScoreInputs :
          InFlight = {} /\ RequestMinigameResult(r, u, t, s)
    \/ \E r \in Slots : MinigameSaveAttempt(r)
    \/ \E r \in Slots : MinigameUpdateBalance(r)
    \/ \E r \in Slots : MinigameNewProgress(r)

SpecSequential == Init /\ [][NextSequential]_vars

----------------------------------------------------------------------------
(* The engine called directly: every call is an action, its arguments drawn  *)
(* from the sets below, the clock being the one hidden input.                *)

RateInputs == {0, 1, 20}                  \* half dollars per hour
MaxHoursInputs == {0, 1, 24}
BaseCostInputs == {<<1, 2>>, <<1, 1>>, <<50, 1>>, <<75, 1>>}
MultiplierInputs == {<<23, 20>>, <<3, 2>>, <<2, 1>>}

CallOfflineIncome ==
    /\ \E income_per_hour \in RateInputs, last_collected \in Instants,
          max_hours \in MaxHoursInputs :
          /\ call' = [op |-> "calculate_offline_income",
                      args |-> <<income_per_hour, last_collected, max_hours, now>>]
          /\ ret' = calculate_offline_income(income_per_hour, last_collected,
                                             max_hours, now)
    /\ UNCHANGED <<accrued, now, users, user_progress, user_upgrades, user_achievements,
                   minigame_attempts, unlock_ret, req, started>>

CallOfflineIncomeDefault ==
    /\ \E income_per_hour \in RateInputs, last_collected \in Instants :
          /\ call' = [op |-> "calculate_offline_income",
                      args |-> <<income_per_hour, last_collected,
                                 OFFLINE_INCOME_MAX_HOURS, now>>]
          /\ ret' = calculate_offline_income_default(income_per_hour,
                                                     last_collected, now)
    /\ UNCHANGED <<accrued, now, users, user_progress, user_upgrades, user_achievements,
                   minigame_attempts, unlock_ret, req, started>>

CallUpgradeCost ==
    /\ \E base_cost \in BaseCostInputs, current_level \in 0..MaxLevel,
          multiplier \in MultiplierInputs :
          /\ call' = [op |-> "calculate_upgrade_cost",
                      args |-> <<base_cost, current_level, multiplier>>]
          /\ ret' = calculate_upgrade_cost(base_cost, current_level, multiplier)
    /\ UNCHANGED <<accrued, now, users, user_progress, user_upgrades, user_achievements,
                   minigame_attempts, unlock_ret, req, started>>

\* rows of a player's upgrades as get_user_upgrades returns them; 1.0 dollar per
\* hour of income_bonus is 2 half dollars
UpgradeRowInputs ==
    {[level |-> 2, income_bonus |-> 2, guests_bonus |-> 0],
     [level |-> 1, income_bonus |-> 0, guests_bonus |-> 3],
     [level |-> 0, income_bonus |-> 4, guests_bonus |-> 1],
     [level |-> 3, income_bonus |-> 1, guests_bonus |-> 2]}
UpgradeListInputs == UNION {[1..n -> UpgradeRowInputs] : n \in 0..MaxOwned}
BaseIncomeInputs == {0, 20}               \* half dollars per hour
BaseGuestsInputs == {2, 5}
\* the lists passed to get_user_achievements' count: rows of level 0 and 1
CountedListInputs == {owned \in UpgradeListInputs : \A i \in DOMAIN owned : owned[i].level <= 1}
TotalEarnedInputs == {100, 150}           \* dollars
ConditionTypeInputs == {"total_earned", "upgrades_count", "guests_served", "streak"}
ConditionValueInputs == {2, 100, 1000}
EngineScoreInputs == {-5, 0, 1, 50, 51, 60, 100, 101, 150}
EngineGameTypeInputs == {"burger_flip", "speed_tap", "memory", "puzzle"}

\* calculate_total_income(base_income, upgrades).  base_guests is the base guest
\* rate the caller holds: the signature has no parameter to pass it in, and the
\* call is recorded with it as args[3].
CallTotalIncome ==
    /\ \E base_income \in BaseIncomeInputs, base_guests \in BaseGuestsInputs,
          owned \in UpgradeListInputs :
          /\ call' = [op |-> "calculate_total_income",
                      args |-> <<base_income, owned, base_guests>>]
          /\ ret' = calculate_total_income(base_income, owned)
    /\ UNCHANGED <<accrued, now, users, user_progress, user_upgrades, user_achievements,
                   minigame_attempts, unlock_ret, req, started>>

\* the number of upgrades with level > 0, as get_user_achievements counts them
upgrades_count(owned) == Cardinality({i \in 1..Len(owned) : owned[i].level > 0})

\* check_achievement_progress(progress_data, achievement), with progress_data
\* built as get_user_achievements builds it from the progress row and the
\* player's upgrades (args[3]), or holding no key at all
CallCheckAchievement ==
    /\ \E total_earned \in TotalEarnedInputs, owned \in CountedListInputs,
          keys \in {{"total_earned", "upgrades_count"}, {}},
          condition_type \in ConditionTypeInputs,
          condition_value \in ConditionValueInputs :
          LET progress_data == [k \in keys |-> IF k = "total_earned" THEN total_earned
                                                ELSE upgrades_count(owned)]
              achievement == [condition_type |-> condition_type,
                              condition_value |-> condition_value]
          IN  /\ call' = [op |-> "check_achievement_progress",
                          args |-> <<progress_data, achievement, owned>>]
              /\ ret' = check_achievement_progress(progress_data, achievement)
    /\ UNCHANGED <<accrued, now, users, user_progress, user_upgrades, user_achievements,
                   minigame_attempts, unlock_ret, req, started>>

CallMinigameReward ==
    /\ \E score \in EngineScoreInputs, game_type \in EngineGameTypeInputs :
          /\ call' = [op |-> "calculate_minigame_reward", args |-> <<score, game_type>>]
          /\ ret' = calculate_minigame_reward(score, game_type)
    /\ UNCHANGED <<accrued, now, users, user_progress, user_upgrades, user_achievements,
                   minigame_attempts, unlock_ret, req, started>>

\* a duration in seconds, as calculate_offline_income returns its hours
DurationInputs == {-90, 0, 59, 60, 2700, 3599, 3600, 3659, 3660, 7200, 9000, 86399, 86400}

CallFormatTime ==
    /\ \E hours \in DurationInputs :
          /\ call' = [op |-> "format_time", args |-> <<hours>>]
          /\ ret' = format_time(hours)
    /\ UNCHANGED <<accrued, now, users, user_progress, user_upgrades, user_achievements,
                   minigame_attempts, unlock_ret, req, started>>

NextEngine ==
    \/ Tick
    \/ CallFormatTime
    \/ CallOfflineIncome
    \/ CallOfflineIncomeDefault
    \/ CallUpgradeCost
    \/ CallTotalIncome
    \/ CallCheckAchievement
    \/ CallMinigameReward

SpecEngine == Init /\ [][NextEngine]_vars

----------------------------------------------------------------------------
(* Database.unlock_achievement called directly (no handler calls it), over   *)
(* the users that cmd_start registers.                                       *)

\* INITIAL_ACHIEVEMENTS: the ids of the catalogue rows modelled
achievements == {1, 6}
AchievementIdInputs == {1, 6, 99}      \* 99: not in the catalogue

\* unlock_achievement: <<table user_achievements after it, the value returned>>.
\* The INSERT raises IntegrityError on UNIQUE(user_id, achievement_id) and on
\* the foreign keys (PRAGMA foreign_keys = ON).
unlock_achievement_no_unique(user_id, achievement_id) ==
    IF user_id \in users /\ achievement_id \in achievements
    THEN <<Append(user_achievements, <<user_id, achievement_id>>), TRUE>>
    ELSE <<user_achievements, FALSE>>

unlock_achievement(user_id, achievement_id) ==
    IF /\ \A i \in 1..Len(user_achievements) :
              user_achievements[i] # <<user_id, achievement_id>>
       /\ user_id \in users
       /\ achievement_id \in achievements
    THEN <<Append(user_achievements, <<user_id, achievement_id>>), TRUE>>
    ELSE <<user_achievements, FALSE>>

UnlockAchievement(u, a) ==
    /\ Len(user_achievements) < MaxUnlocks
    /\ LET got == unlock_achievement(u, a)
       IN  /\ user_achievements' = got[1]
           /\ unlock_ret' = <<u, a, got[2], Len(user_achievements)>>
    /\ UNCHANGED <<accrued, now, call, ret, users, user_progress, user_upgrades,
                   minigame_attempts, req, started>>

NextUnlock ==
    \/ \E r \in Slots : Reply(r)
    \/ \E r \in Slots, u \in UserIds : RequestStart(r, u)
    \/ \E r \in Slots : StartGetUser(r)
    \/ \E r \in Slots : StartUpdateActive(r)
    \/ \E r \in Slots : StartInsertUser(r)
    \/ \E r \in Slots : StartInsertProgress(r)
    \/ \E u \in UserIds, a \in AchievementIdInputs : UnlockAchievement(u, a)

SpecUnlock == Init /\ [][NextUnlock]_vars

----------------------------------------------------------------------------
(* The leaderboard queries of the Database called directly, over the players *)
(* and the progress rows that the handlers have written.                     *)

PlayerIds == 1..NumPlayers
RankIdInputs == PlayerIds \cup {99}       \* 99: never registered
EarnedInputs == {0, 100, 200}             \* dollars
LimitInputs == {-1, 0, 1, 2, 10}          \* a negative LIMIT is no limit in SQLite

\* get_user_rank: the rank as the set {rank}, or nothing (None) as the empty
\* set.  The subquery yields NULL when the user has no row, and a comparison
\* with NULL selects no row; the SELECT of an aggregate returns one row always.
get_user_rank_count_ties(user_id) ==
    LET own == IF user_id \in DOMAIN user_progress
               THEN {user_progress[user_id].total_earned} ELSE {}
        counted == {p \in DOMAIN user_progress \ {user_id} :
                       \E t \in own : user_progress[p].total_earned >= t}
    IN  {Cardinality(counted) + 1}

get_user_rank(user_id) ==
    LET own == IF user_id \in DOMAIN user_progress
               THEN {user_progress[user_id].total_earned} ELSE {}
        counted == {p \in DOMAIN user_progress :
                       \E t \in own : user_progress[p].total_earned > t}
        result == {[rank |-> Cardinality(counted) + 1]}
    IN  IF result # {} THEN {row.rank : row \in result} ELSE {}

\* the rows of users JOIN user_progress
joined_players == {u \in users : u \in DOMAIN user_progress}

\* the rows in an order that a sort on total_earned can leave them in
Orderings(descending) ==
    LET n == Cardinality(joined_players)
    IN  {s \in [1..n -> joined_players] :
            /\ \A i, j \in 1..n : i # j => s[i] # s[j]
            /\ \A i, j \in 1..n : i < j =>
                  IF descending
                  THEN user_progress[s[i]].total_earned >= user_progress[s[j]].total_earned
                  ELSE user_progress[s[i]].total_earned <= user_progress[s[j]].total_earned}

\* the rows LIMIT leaves of the ordered rows s
Limited(s, limit) ==
    LET kept == SubSeq(s, 1, IF limit < 0 THEN Len(s) ELSE Min(limit, Len(s)))
    IN  [i \in 1..Len(kept) |->
            [user_id |-> kept[i], total_earned |-> user_progress[kept[i]].total_earned]]

\* get_top_players(limit): the results the query can return, one for each
\* order in which the sort leaves rows of equal total_earned
get_top_players_ascending(limit) == {Limited(s, limit) : s \in Orderings(FALSE)}

get_top_players(limit) == {Limited(s, limit) : s \in Orderings(TRUE)}

CallGetUserRank ==
    /\ \E user_id \in RankIdInputs :
          /\ call' = [op |-> "get_user_rank", args |-> <<user_id>>]
          /\ ret' = get_user_rank(user_id)
    /\ UNCHANGED <<accrued, now, users, user_progress, user_upgrades, user_achievements,
                   minigame_attempts, unlock_ret, req, started>>

CallGetTopPlayers ==
    /\ \E limit \in LimitInputs :
          /\ call' = [op |-> "get_top_players", args |-> <<limit>>]
          /\ ret' \in get_top_players(limit)
    /\ UNCHANGED <<accrued, now, users, user_progress, user_upgrades, user_achievements,
                   minigame_attempts, unlock_ret, req, started>>

\* update_balance(user_id, amount, update_total=True), as collect_income and
\* save_minigame_result call it
CallUpdateBalance ==
    /\ \E user_id \in DOMAIN user_progress :
          /\ user_progress[user_id].total_earned < MaxEarned * DOLLAR
          /\ call' = [op |-> "update_balance", args |-> <<user_id, 100 * DOLLAR, TRUE>>]
          /\ user_progress' = update_balance(user_id, 100 * DOLLAR, TRUE)
    /\ ret' = <<>>
    /\ UNCHANGED <<accrued, now, users, user_upgrades, user_achievements,
                   minigame_attempts, unlock_ret, req, started>>

\* The database file as earlier requests left it: players registered, their
\* progress rows written (create_user inserts the progress row in a second
\* statement) and credited.
InitRank ==
    /\ now = 0
    /\ call = [op |-> "none", args |-> <<>>]
    /\ ret = <<>>
    /\ users \in SUBSET PlayerIds
    /\ \E with_row \in SUBSET users :
          user_progress \in [with_row ->
              {[new_progress_row(0) EXCEPT !.balance = e * DOLLAR,
                                           !.total_earned = e * DOLLAR] :
                  e \in EarnedInputs}]
    /\ user_upgrades = <<>>
    /\ user_achievements = <<>>
    /\ minigame_attempts = <<>>
    /\ unlock_ret = <<>>
    /\ req = [r \in Slots |-> Idle]
    /\ started = 0
    /\ accrued = [u \in DOMAIN user_progress |-> 0]

NextRank ==
    \/ CallGetUserRank
    \/ CallGetTopPlayers
    \/ CallUpdateBalance

SpecRank == InitRank /\ [][NextRank]_vars

----------------------------------------------------------------------------
(* Claims about the engine, checked under SpecEngine *)

IsOffline(c) == c.op = "calculate_offline_income"
Elapsed(c) == c.args[4] - c.args[2]
Cap(c) == c.args[3] * SecondsPerHour

IsCost(c) == c.op = "calculate_upgrade_cost"
\* the exact product base_cost * multiplier^current_level as num / den
CostNum(c) == c.args[1][1] * Pow(c.args[3][1], c.args[2])
CostDen(c) == c.args[1][2] * Pow(c.args[3][2], c.args[2])

\* C1: for income_per_hour >= 0, max_hours >= 0 and elapsed >= 0 the call
\* returns hours = min(elapsed, max_hours) and income = income_per_hour * hours;
\* the income is the constant income_per_hour * max_hours from the cap on, and
\* of two calls with the same rate and cap the one with the longer elapsed
\* time returns no less.
C1_OfflineIncome ==
    /\ [](IsOffline(call) /\ call.args[1] >= 0 /\ call.args[3] >= 0 /\ Elapsed(call) >= 0
            => /\ ret[2] = Min(Elapsed(call), Cap(call))
               /\ ret[1] = call.args[1] * Min(Elapsed(call), Cap(call))
               /\ (Elapsed(call) >= Cap(call) => ret[1] = call.args[1] * Cap(call)))
    /\ [][IsOffline(call) /\ IsOffline(call')
            /\ call.args[1] >= 0 /\ call.args[3] >= 0
            /\ call'.args[1] = call.args[1] /\ call'.args[3] = call.args[3]
            /\ 0 <= Elapsed(call) /\ Elapsed(call) <= Elapsed(call')
            => ret[1] <= ret'[1]]_vars

\* a call past the cap with a positive rate has returned the capped income
C1_Witness ==
    /\ IsOffline(call) /\ call.args[1] > 0 /\ call.args[3] > 0
    /\ Elapsed(call) > Cap(call)
    /\ ret = <<call.args[1] * Cap(call), Cap(call)>>

\* C2: with last_collected later than the clock (elapsed < 0) the call returns
\* income 0 and hours 0.
C2_ClampedAtZero ==
    IsOffline(call) /\ call.args[1] >= 0 /\ Elapsed(call) < 0 => ret = <<0, 0>>

\* C3: for base_cost > 0, multiplier > 1 and current_level >= 0 the call
\* returns the smallest integer not below base_cost * multiplier^current_level;
\* at level 0 an integer base_cost itself; and (50, 1, 1.15) gives 58.
C3_UpgradeCostCeiling ==
    IsCost(call) =>
        /\ ret * CostDen(call) >= CostNum(call)
        /\ (ret - 1) * CostDen(call) < CostNum(call)
        /\ (call.args[2] = 0 /\ call.args[1][2] = 1 => ret = call.args[1][1])
        /\ (call.args = <<(<<50, 1>>), 1, (<<23, 20>>)>> => ret = 58)

C3_Witness ==
    /\ IsCost(call)
    /\ call.args = <<(<<50, 1>>), 1, (<<23, 20>>)>>
    /\ ret = 58

\* the step from a call at some level to a call at the next level of the same upgrade
NextLevelCall ==
    /\ IsCost(call) /\ IsCost(call')
    /\ call'.args[1] = call.args[1]
    /\ call'.args[3] = call.args[3]
    /\ call'.args[2] = call.args[2] + 1

\* C4 as stated: the cost is strictly increasing in the level.
C4_StrictlyIncreasing == [][NextLevelCall => ret' > ret]_vars

\* C4 amended: the cost never decreases with the level, and it is strictly
\* increasing when base_cost * (multiplier - 1) >= 1.
C4_NonDecreasing ==
    [][NextLevelCall =>
            /\ ret' >= ret
            /\ (call.args[1][1] * (call.args[3][1] - call.args[3][2])
                    >= call.args[1][2] * call.args[3][2] => ret' > ret)]_vars

\* base_cost 1 at multiplier 1.15 costs 2 at level 2, as it does at level 1
C4_Witness ==
    /\ IsCost(call)
    /\ call.args = <<(<<1, 1>>), 2, (<<23, 20>>)>>
    /\ ret = calculate_upgrade_cost(<<1, 1>>, 1, <<23, 20>>)

IsTotal(c) == c.op = "calculate_total_income"
IsCheck(c) == c.op = "check_achievement_progress"
IsReward(c) == c.op = "calculate_minigame_reward"

\* the sum of level * bonus over the rows of a list, taken in no order
RECURSIVE SumBonus(_, _, _)
SumBonus(owned, idx, field) ==
    IF idx = {} THEN 0
    ELSE LET i == CHOOSE j \in idx : TRUE
         IN  owned[i].level * (IF field = "income" THEN owned[i].income_bonus
                                                   ELSE owned[i].guests_bonus)
             + SumBonus(owned, idx \ {i}, field)

\* C11: calculate_total_income returns base_income + sum(level * income_bonus)
\* and base_guests + sum(level * guests_bonus), base_guests being the base
\* guest rate of the caller; base 10 / 2 with [{2, 1.0, 0}, {1, 0, 3}] gives
\* (12.0, 5).
C11_TotalIncome ==
    IsTotal(call) =>
        /\ ret = <<call.args[1] + SumBonus(call.args[2], DOMAIN call.args[2], "income"),
                   call.args[3] + SumBonus(call.args[2], DOMAIN call.args[2], "guests")>>
        /\ (/\ call.args[1] = HalfDollars(10) /\ call.args[3] = 2
            /\ call.args[2] = <<[level |-> 2, income_bonus |-> 2, guests_bonus |-> 0],
                                [level |-> 1, income_bonus |-> 0, guests_bonus |-> 3]>>
            => ret = <<HalfDollars(12), 5>>)

\* what calculate_total_income does return: the sums over the rows in any
\* order, over base_income and over the configured INITIAL_GUESTS_PER_HOUR
TotalIncomeOverConfiguredGuests ==
    IsTotal(call) =>
        ret = <<call.args[1] + SumBonus(call.args[2], DOMAIN call.args[2], "income"),
                INITIAL_GUESTS_PER_HOUR
                    + SumBonus(call.args[2], DOMAIN call.args[2], "guests")>>

\* C13: for condition type total_earned the call returns
\* (total_earned >= condition_value), for upgrades_count it returns
\* (upgrades_count >= condition_value), upgrades_count being the number of the
\* player's upgrades with level > 0; a value equal to the threshold satisfies it.
C13_ThresholdMet ==
    IsCheck(call) /\ DOMAIN call.args[1] # {} =>
        LET progress_data == call.args[1]
            achievement == call.args[2]
            owned == call.args[3]
        IN  /\ achievement.condition_type = "total_earned"
               => ret = (progress_data["total_earned"] >= achievement.condition_value)
            /\ achievement.condition_type = "upgrades_count"
               => ret = (Cardinality({i \in DOMAIN owned : owned[i].level > 0})
                            >= achievement.condition_value)
            /\ (/\ achievement.condition_type = "total_earned"
                /\ progress_data["total_earned"] = 150
                => ret = (achievement.condition_value # 1000))

\* a snapshot value equal to the threshold has been found to satisfy it
C13_Witness ==
    /\ IsCheck(call)
    /\ DOMAIN call.args[1] # {}
    /\ call.args[2].condition_type = "upgrades_count"
    /\ call.args[2].condition_value = 2
    /\ call.args[1]["upgrades_count"] = 2
    /\ Len(call.args[3]) = 2
    /\ ret = TRUE

\* C14: for guests_served and for a condition type outside the known set the
\* call yields an outcome of its own, which is neither of the two outcomes
\* (satisfied, not yet met) of a supported type.
C14_UnsupportedOutcome ==
    IsCheck(call) /\ call.args[2].condition_type \notin {"total_earned", "upgrades_count"}
        => ret \notin BOOLEAN

\* the per-point multiplier of the claim, in 1/10000 dollar
PerPoint(game_type) ==
    IF game_type = "burger_flip" THEN 5000
    ELSE IF game_type = "speed_tap" THEN 3000
    ELSE IF game_type = "memory" THEN 10000
    ELSE 5000

\* C15: for score >= 0 the call returns round2(score * m * b), m being 0.5,
\* 0.3, 1.0 for burger_flip, speed_tap, memory and 0.5 for any other type, b
\* being 1.5 when score > 50 and 1 otherwise; score 50 has no bonus, score 60
\* at burger_flip gives 45.0, and the result is >= 0.  The result is in whole
\* cents: it has at most 2 fractional digits.
C15_MinigameReward ==
    IsReward(call) /\ call.args[1] >= 0 =>
        LET score == call.args[1]
            m == PerPoint(call.args[2])
        IN  /\ ret = round2(IF score > 50 THEN (score * m * 15) \div 10 ELSE score * m)
            /\ ret >= 0
            /\ (score = 50 => ret * 100 = 50 * m)
            /\ (score = 60 /\ call.args[2] = "burger_flip" => ret = 4500)

\* score 50 has been rewarded with no bonus
C15_Witness ==
    /\ IsReward(call)
    /\ call.args = <<50, "speed_tap">>
    /\ ret = 1500

\* C16: no score has its reward multiplied by 2.0, and a score > 100 has it
\* multiplied by 1.5, as the scores 51..100 have.
C16_DoubleBonusUnreachable ==
    IsReward(call) =>
        LET score == call.args[1]
            m == PerPoint(call.args[2])
        IN  /\ (score > 50 => ret = round2((score * m * 15) \div 10))
            /\ (score # 0 => ret # round2(score * m * 2))

\* a score above 100 has been rewarded 1.5 times its points
C16_Witness ==
    /\ IsReward(call)
    /\ call.args = <<150, "memory">>
    /\ ret = 22500

IsFormatTime(c) == c.op = "format_time"

\* floor(h * 60) and floor(h), h being secs / 3600 with secs >= 0
WholeMinutes(secs) == CHOOSE m \in 0..secs : m * 60 <= secs /\ secs < (m + 1) * 60
WholeHours(secs) == CHOOSE k \in 0..secs : k * 3600 <= secs /\ secs < (k + 1) * 3600

\* C21: format_time renders h >= 0 as floor(h * 60) minutes when h < 1, and
\* otherwise as floor(h) hours followed by floor((h - floor(h)) * 60) minutes,
\* the minutes left out exactly when they are 0; the minutes shown are in 0..59.
C21_FormatTime ==
    IsFormatTime(call) /\ call.args[1] >= 0 =>
        LET secs == call.args[1]
            rest == WholeMinutes(secs - WholeHours(secs) * 3600)
        IN  /\ secs < 3600 => ret = <<WholeMinutes(secs), "m">>
            /\ secs >= 3600 /\ rest = 0 => ret = <<WholeHours(secs), "h">>
            /\ secs >= 3600 /\ rest # 0 => ret = <<WholeHours(secs), "h", rest, "m">>
            /\ ret[Len(ret)] = "m" => ret[Len(ret) - 1] \in 0..59

\* one hour and 59 seconds have been rendered with no minutes part
C21_Witness ==
    /\ IsFormatTime(call)
    /\ call.args = <<3659>>
    /\ ret = <<1, "h">>

\* the arguments of the Python call recorded
PyArgs(c) ==
    IF IsOffline(c) THEN SubSeq(c.args, 1, 3)
    ELSE IF IsTotal(c) \/ IsCheck(c) THEN SubSeq(c.args, 1, 2)
    ELSE c.args

\* C20: two calls of an engine operation with identical arguments return
\* identical results, whatever the state and the time of the calls.
C20_Deterministic ==
    [][/\ call.op \in {"calculate_offline_income", "calculate_upgrade_cost",
                       "calculate_total_income", "check_achievement_progress"}
       /\ call'.op = call.op
       /\ PyArgs(call') = PyArgs(call)
       => ret' = ret]_vars

----------------------------------------------------------------------------
(* Claims about unlock_achievement, checked under SpecUnlock *)

Unlocked(table, pair) == \E i \in 1..Len(table) : table[i] = pair

\* C10: the first unlock_achievement of a (player, achievement) pair records it
\* and returns True; a later call for the pair returns False and leaves the
\* table unchanged; and no step removes an unlock.
C10_UnlockAtMostOnce ==
    [][/\ \A i \in 1..Len(user_achievements) :
              Unlocked(user_achievements', user_achievements[i])
       /\ unlock_ret' # unlock_ret =>
            LET pair == <<unlock_ret'[1], unlock_ret'[2]>>
            IN  IF Unlocked(user_achievements, pair)
                THEN unlock_ret'[3] = FALSE /\ user_achievements' = user_achievements
                ELSE IF pair[1] \in users /\ pair[2] \in achievements
                THEN /\ unlock_ret'[3] = TRUE
                     /\ user_achievements' = Append(user_achievements, pair)
                ELSE unlock_ret'[3] = FALSE /\ user_achievements' = user_achievements
      ]_vars

\* a second call for an unlocked pair has returned False
C10_Witness ==
    /\ unlock_ret # <<>>
    /\ unlock_ret[3] = FALSE
    /\ Unlocked(user_achievements, <<unlock_ret[1], unlock_ret[2]>>)
    /\ Len(user_achievements) = 1

----------------------------------------------------------------------------
(* Claims about the handlers and the datastore, checked under Spec *)

\* request r takes a step that leaves the given pc
Leaves(r, pc) == req[r].pc = pc /\ req'[r].pc # pc

\* C5: every player's balance is >= 0 in every reachable state.  Stated for
\* the states in which every minigame score saved is >= 0.
C5_BalanceNonNegative ==
    (\A i \in 1..Len(minigame_attempts) : minigame_attempts[i].score >= 0)
        => \A u \in DOMAIN user_progress : user_progress[u].balance >= 0

\* C6: total_earned never decreases; it increases only in the update_balance
\* step of a collect-income or a minigame-result request; and no step of a
\* purchase-upgrade request changes it.
C6_TotalEarnedMonotone ==
    [][\A u \in DOMAIN user_progress :
          LET old == user_progress[u].total_earned
              new == user_progress'[u].total_earned
          IN  /\ new >= old
              /\ new > old =>
                    \E r \in Slots :
                        /\ req[r].user_id = u
                        /\ \/ Leaves(r, "collect_update_balance")
                           \/ Leaves(r, "minigame_update_balance")
              /\ (\E r \in Slots : Leaves(r, "purchase_update_balance")) => new = old
      ]_vars

PostCredit(r) ==
    \/ req[r].pc \in {"collect_update_last", "collect_new_progress"}
    \/ req[r].pc = "reply" /\ req[r].response = "collected"

\* C7: two collect-income requests of one player never credit the same
\* accrual window twice: what both credit for the window they read is at most
\* income_per_hour * min(elapsed, max_hours) of that window.
C7_WindowCreditedOnce ==
    \A r1, r2 \in Slots :
        /\ r1 # r2 /\ PostCredit(r1) /\ PostCredit(r2)
        /\ req[r1].user_id = req[r2].user_id
        /\ Progress(r1).last_income_collected = Progress(r2).last_income_collected
        => req[r1].income + req[r2].income
              <= Max(Progress(r1).income_per_hour, Progress(r2).income_per_hour)
                 * Min(now - Progress(r1).last_income_collected,
                       OFFLINE_INCOME_MAX_HOURS * SecondsPerHour)

OwnedPairs == UserIds \X DOMAIN upgrades

\* C9: the owned level of a (player, upgrade) pair never decreases; a pair
\* with no row reads as level 0 and every row holds a level >= 1; a successful
\* purchase raises the level by exactly 1 (from no row to 1), and nothing
\* else changes it.
C9_LevelMonotone ==
    /\ [](\A pair \in DOMAIN user_upgrades : user_upgrades[pair] >= 1)
    /\ [][\A pair \in OwnedPairs :
            LET old == IF pair \in DOMAIN user_upgrades THEN user_upgrades[pair] ELSE 0
                new == IF pair \in DOMAIN user_upgrades' THEN user_upgrades'[pair] ELSE 0
            IN  /\ new >= old
                /\ \A r \in Slots :
                      /\ Leaves(r, "purchase_db_get_level")
                      /\ <<req[r].user_id, req[r].upgrade_id>> = pair
                      => req'[r].current_level = old
                /\ IF \E r \in Slots :
                         /\ Leaves(r, "purchase_db_write")
                         /\ <<req[r].user_id, req[r].upgrade_id>> = pair
                         /\ req'[r].purchased
                   THEN new = old + 1
                   ELSE new = old
         ]_vars

\* an upgrade bought twice stands at level 2
C9_Witness ==
    \E pair \in DOMAIN user_upgrades : user_upgrades[pair] = 2

\* a purchase-upgrade request of player u has been accepted and not answered
PurchaseInFlight(u) ==
    \E r \in Slots : req[r].pc # "idle" /\ req[r].user_id = u /\ req[r].upgrade_id # 0

\* the sum of level * bonus over the rows player u owns
OwnedBonus(u, field) ==
    LET owned == [i \in 1..Len(upgrade_order) |->
                    [level |-> get_user_upgrade_level(u, upgrade_order[i]),
                     income_bonus |-> upgrades[upgrade_order[i]].income_bonus,
                     guests_bonus |-> upgrades[upgrade_order[i]].guests_bonus]]
    IN  SumBonus(owned, DOMAIN owned, field)

\* C12: whenever no purchase-upgrade request of a player is in flight, the
\* stored income_per_hour and guests_per_hour are the base plus the sum of
\* level * bonus over the player's owned levels.
C12_SnapshotMatchesLevels ==
    \A u \in DOMAIN user_progress :
        ~PurchaseInFlight(u) =>
            /\ user_progress[u].income_per_hour
                  = HalfDollars(INITIAL_INCOME_PER_HOUR) + OwnedBonus(u, "income")
            /\ user_progress[u].guests_per_hour
                  = INITIAL_GUESTS_PER_HOUR + OwnedBonus(u, "guests")

\* C22: a purchase-upgrade request debits the balance only when its
\* db.purchase_upgrade has raised the level by 1, and the cost it debits is
\* the next-level cost of the level the upgrade had just before that increment.
C22_PurchaseAtomic ==
    [][\A r \in Slots :
          /\ Leaves(r, "purchase_update_balance") => req[r].purchased
          /\ Leaves(r, "purchase_db_write") /\ req'[r].purchased =>
                LET pair == <<req[r].user_id, req[r].upgrade_id>>
                    before == get_user_upgrade_level(pair[1], pair[2])
                IN  /\ user_upgrades'[pair] = before + 1
                    /\ req[r].cost = calculate_upgrade_cost(
                                         upgrades[pair[2]].base_cost, before,
                                         upgrades[pair[2]].cost_multiplier)
      ]_vars

\* total_earned - balance of the row of player u in a table user_progress
Spent(table, u) == table[u].total_earned - table[u].balance

\* C23: for every player total_earned - balance is the sum of the costs that
\* the player's purchase-upgrade requests have debited: it is 0 in a new row,
\* it grows by the cost in the debit step of a purchase, and no other step
\* changes it; so balance <= total_earned in every state.
C23_EarnedMinusBalance ==
    /\ [](\A u \in DOMAIN user_progress :
             user_progress[u].balance <= user_progress[u].total_earned)
    /\ [][\A u \in DOMAIN user_progress' :
            IF u \notin DOMAIN user_progress
            THEN Spent(user_progress', u) = 0
            ELSE \/ /\ \E r \in Slots :
                         /\ Leaves(r, "purchase_update_balance")
                         /\ req[r].user_id = u
                         /\ Spent(user_progress', u)
                               = Spent(user_progress, u) + req[r].cost * DOLLAR
                 \/ /\ ~ \E r \in Slots :
                           Leaves(r, "purchase_update_balance") /\ req[r].user_id = u
                    /\ Spent(user_progress', u) = Spent(user_progress, u)
         ]_vars

\* a player who earned 90 and bought an upgrade for 50 holds 40
C23_Witness ==
    \E u \in DOMAIN user_progress :
        /\ user_progress[u].total_earned = 90 * DOLLAR
        /\ user_progress[u].balance = 40 * DOLLAR
        /\ get_user_upgrade_level(u, 1) = 1

\* C24: a collect-income request whose computed income is below 0.01 is
\* answered at once and writes nothing, so balance, total_earned and
\* last_income_collected stay as they were; a request with income >= 0.01 adds
\* exactly that income to balance and to total_earned, and then sets
\* last_income_collected to the time of the update; its other steps write nothing.
C24_CollectThreshold ==
    [][\A r \in Slots :
          LET u == req[r].user_id
          IN  /\ (\/ Leaves(r, "collect_get_progress")
                  \/ Leaves(r, "collect_calculate")
                  \/ Leaves(r, "collect_new_progress"))
                 => UNCHANGED dbVars
              /\ Leaves(r, "collect_calculate") =>
                    IF req'[r].income < CENT
                    THEN /\ req'[r].pc = "reply"
                         /\ req'[r].response = "No income to collect yet"
                    ELSE req'[r].pc = "collect_update_balance"
              /\ Leaves(r, "collect_update_balance") /\ u \in DOMAIN user_progress =>
                    /\ req[r].income >= CENT
                    /\ user_progress' = [user_progress EXCEPT
                           ![u].balance = @ + req[r].income,
                           ![u].total_earned = @ + req[r].income]
                    /\ req'[r].pc = "collect_update_last"
              /\ Leaves(r, "collect_update_last") /\ u \in DOMAIN user_progress =>
                    user_progress' = [user_progress EXCEPT
                           ![u].last_income_collected = now]
      ]_vars

\* a collect of less than a cent has been turned down, its window kept
C24_Witness ==
    \E r \in Slots :
        /\ req[r].pc = "reply"
        /\ req[r].response = "No income to collect yet"
        /\ req[r].income > 0
        /\ req[r].user_id \in DOMAIN user_progress
        /\ user_progress[req[r].user_id].last_income_collected < now
        /\ user_progress[req[r].user_id].balance = 0

\* C25: with the requests run one at a time, the income a collect credits
\* is at most what accrued since last_income_collected at the rates in effect
\* while the time passed (r1 * t1 + r2 * t2 when a purchase raised r1 to r2).
C25_NoRetroactiveRate ==
    [][\A r \in Slots :
          Leaves(r, "collect_update_balance") => req[r].income <= Accrued(req[r].user_id)
      ]_vars

----------------------------------------------------------------------------
(* Claims about the leaderboard queries, checked under SpecRank *)

IsRank(c) == c.op = "get_user_rank"
IsTop(c) == c.op = "get_top_players"

\* the players whose total_earned is strictly greater than that of player u
Greater(u) ==
    {p \in DOMAIN user_progress :
        user_progress[p].total_earned > user_progress[u].total_earned}

\* C17: for a player with a progress row get_user_rank returns the number of
\* players of strictly greater total_earned, plus 1; players of equal
\* total_earned get the same rank, and a player of the maximum gets rank 1.
C17_RankCountsGreater ==
    IsRank(call) /\ call.args[1] \in DOMAIN user_progress =>
        LET u == call.args[1]
        IN  /\ ret = {Cardinality(Greater(u)) + 1}
            /\ \A p \in DOMAIN user_progress :
                  user_progress[p].total_earned = user_progress[u].total_earned
                      => get_user_rank(p) = ret
            /\ (\A p \in DOMAIN user_progress :
                    user_progress[p].total_earned <= user_progress[u].total_earned)
                  => ret = {1}

\* two players tied below a third have been ranked: rank 2
C17_Witness ==
    /\ IsRank(call)
    /\ call.args[1] \in DOMAIN user_progress
    /\ \E p \in DOMAIN user_progress \ {call.args[1]} :
          user_progress[p].total_earned = user_progress[call.args[1]].total_earned
    /\ ret = {2}

\* C18: for a player id with no progress row get_user_rank returns nothing
\* (None), not a number.
C18_AbsentRank ==
    IsRank(call) /\ call.args[1] \notin DOMAIN user_progress => ret = {}

\* C19: get_top_players(N) returns min(N, number of players) rows of distinct
\* players, in descending order of total_earned, and no player left out has a
\* total_earned greater than that of a player returned.  Stated for N >= 0.
C19_TopPlayers ==
    IsTop(call) /\ call.args[1] >= 0 =>
        LET returned == {ret[i].user_id : i \in DOMAIN ret}
        IN  /\ Len(ret) = Min(call.args[1], Cardinality(joined_players))
            /\ Cardinality(returned) = Len(ret)
            /\ returned \subseteq joined_players
            /\ \A i \in DOMAIN ret :
                  ret[i].total_earned = user_progress[ret[i].user_id].total_earned
            /\ \A i, j \in DOMAIN ret :
                  i < j => ret[i].total_earned >= ret[j].total_earned
            /\ \A p \in joined_players \ returned : \A i \in DOMAIN ret :
                  user_progress[p].total_earned <= ret[i].total_earned

\* the top 2 of 3 players have been returned, the third one earning less
C19_Witness ==
    /\ IsTop(call)
    /\ call.args[1] = 2
    /\ Cardinality(joined_players) = 3
    /\ Len(ret) = 2
    /\ ret[1].total_earned > ret[2].total_earned
    /\ \E p \in joined_players : user_progress[p].total_earned < ret[2].total_earned

====
